---- MODULE Spec2Model ----
(***************************************************************************)
(* Model of umituz/react-native-camera.                                    *)
(*                                                                         *)
(*   Spec          the useCamera hook (presentation/hooks/useCamera.ts)    *)
(*                 driven by its caller, by React re-renders and by the    *)
(*                 native camera settling the promises it handed out.      *)
(*   SpecService   the permission / capture facade: the static             *)
(*                 CameraService permission requests and the instance      *)
(*                 CameraService (requestPermissions, takePicture,         *)
(*                 recordVideo, stopRecording).                            *)
(*   SpecThrottler BarcodeScannerService.createScanThrottler under a       *)
(*                 non-decreasing clock.                                   *)
(*   SpecConfig    the configuration half of useCamera (config and its     *)
(*                 setters) and the validators it rests on.                *)
(*   SpecBarcode   the pure barcode functions of BarcodeScannerService and *)
(*                 CameraUtils applied to scan results.                    *)
(*   SpecScanner   the throttled useBarcodeScanner hook                    *)
(*                 (presentation/hooks/useBarcodeScanner.ts).              *)
(*                                                                         *)
(* React state is modelled as the state store (the value the next render   *)
(* will show) plus, for isRecording, the value captured by the callbacks   *)
(* of the last render (startRecording and stopRecording are re-created     *)
(* only when isRecording changes, useCamera.ts:250 and :279).              *)
(***************************************************************************)
EXTENDS Integers, Sequences, FiniteSets, TLC

VARIABLES
    \* ---- useCamera ----
    cameraRef,            \* cameraRef.current is attached (TRUE) or null
    isRecording,          \* state store of useState(false), useCamera.ts:103
    renderedIsRecording,  \* isRecording as captured by the current callbacks
    error,                \* state store of useState<string|null>(null)
    cameraPermission,     \* CameraPermissionResult or NullPermission
    microphonePermission, \* CameraPermissionResult or NullPermission
    isReady,              \* state store of useState(false), useCamera.ts:104
    recordOps,            \* native recordAsync promises in flight, oldest
                          \* first; each element: has a native stopRecording
                          \* been issued since it started
    pictureOps,           \* native takePictureAsync promises in flight
    cameraRequests,       \* requestCameraPermission calls awaiting the service
    microphoneRequests,   \* requestMicrophonePermission calls awaiting
    \* ---- instance CameraService ----
    serviceCameraRef,     \* this.cameraRef is set (TRUE) or null
    \* ---- scan throttler ----
    now,                  \* Date.now()
    intervalMs,           \* the closure's intervalMs
    lastScanTime,         \* the closure's lastScanTime
    recordedAt,           \* <<t>>: time of the last recordScan(), or <<>>
    \* ---- useCamera configuration ----
    config,               \* state store of useState<CameraConfig>
    \* ---- a scan result handed to the pure barcode functions ----
    scanType,             \* BarcodeScannedResult.type, a string of characters
    scanData,             \* BarcodeScannedResult.data, a string of tokens
    \* ---- useBarcodeScanner ----
    isScanning,           \* state store of useState(autoStart ?? false)
    lastScannedCode,      \* <<result>> or <<>> for null
    validationResult,     \* <<validation>> or <<>> for null
    scanInterval,         \* state store of useState(scanInterval || 2000)
    renderedScanInterval, \* the scanInterval of the last committed render
    onBarcodeScannesRef,  \* onBarcodeScannesRef.current
    \* ---- the operation performed by the last step ----
    event

vars == <<cameraRef, isRecording, renderedIsRecording, error, cameraPermission,
          microphonePermission, isReady, recordOps, pictureOps, cameraRequests,
          microphoneRequests, serviceCameraRef, now, intervalMs, lastScanTime,
          recordedAt, config, scanType, scanData, isScanning, lastScannedCode,
          validationResult, scanInterval, renderedScanInterval,
          onBarcodeScannesRef, event>>

hookVars == <<cameraRef, isRecording, renderedIsRecording, error,
              cameraPermission, microphonePermission, isReady, recordOps,
              pictureOps, cameraRequests, microphoneRequests>>

serviceVars == <<serviceCameraRef>>

throttlerVars == <<now, intervalMs, lastScanTime, recordedAt>>

configVars == <<config>>

barcodeVars == <<scanType, scanData>>

scannerVars == <<isScanning, lastScannedCode, validationResult, scanInterval,
                 renderedScanInterval, onBarcodeScannesRef>>

----------------------------------------------------------------------------
(* Bounds *)

MaxInFlight == 2       \* native promises the hook is awaiting at once
MaxClock == 5          \* largest value of Date.now()
MaxInterval == 3       \* largest throttler interval
ZoomMargin == 2        \* how far zoom inputs reach outside [0, 1], in tenths
MaxDataLen == 4        \* longest scanned data, in tokens

----------------------------------------------------------------------------
(* Values *)

NULL == "null"

\* What a native call may throw or reject with: an Error carrying a message
\* (possibly empty), or a value that is not an Error.
ThrownValues ==
    { [isError |-> TRUE,  message |-> "E_NATIVE"],
      [isError |-> TRUE,  message |-> ""],
      [isError |-> FALSE, message |-> NULL] }

\* `err instanceof Error ? err.message : fallback'
ErrorMessage(err, fallback) ==
    IF err.isError THEN err.message ELSE fallback

NoThrow == [isError |-> FALSE, message |-> "-"]

\* `null' where a CameraPermissionResult is expected.
NullPermission == [granted |-> FALSE, canAskAgain |-> FALSE, status |-> NULL]

\* The operation of the last step: the function that ran (op), the native
\* call it made (native) and with what argument (arg), how the native layer
\* answered (nativeResult:
\* "pending" = returned a promise that is still open, "returned", "resolved",
\* "rejected", "threw"), how the function's own promise stands (outcome:
\* "pending", "resolved", "rejected") and the value it settled with.
Ev(op, native, arg, nativeResult, outcome, value) ==
    [op |-> op, native |-> native, arg |-> arg, nativeResult |-> nativeResult,
     outcome |-> outcome, value |-> value]

----------------------------------------------------------------------------
(* Native permission layer and the static CameraService permission requests *)

\* What Camera.request*PermissionsAsync() may resolve to.
NativePermissionResponses ==
    { [granted |-> TRUE,  canAskAgain |-> TRUE,  status |-> "granted"],
      [granted |-> FALSE, canAskAgain |-> TRUE,  status |-> "denied"],
      [granted |-> FALSE, canAskAgain |-> FALSE, status |-> "denied"],
      [granted |-> FALSE, canAskAgain |-> TRUE,  status |-> "undetermined"] }

\* How a native permission request ends: it resolves to a response or throws.
NativePermissionAnswers ==
    { [kind |-> "ok", response |-> r, thrown |-> NoThrow] :
          r \in NativePermissionResponses }
    \cup
    { [kind |-> "throw", response |-> NullPermission, thrown |-> e] :
          e \in ThrownValues }

\* static CameraService.requestCameraPermission: the try block copies the
\* native response, the catch block returns a fixed result.
CameraService_requestCameraPermission(answer) ==
    IF answer.kind = "ok"
    THEN [threw |-> FALSE,
          result |-> [granted     |-> answer.response.granted,
                      canAskAgain |-> answer.response.canAskAgain,
                      status      |-> answer.response.status]]
    ELSE [threw |-> FALSE,
          result |-> [granted |-> FALSE, canAskAgain |-> FALSE,
                      status |-> "denied"]]

\* static CameraService.requestMicrophonePermission
CameraService_requestMicrophonePermission(answer) ==
    IF answer.kind = "ok"
    THEN [threw |-> FALSE,
          result |-> [granted     |-> answer.response.granted,
                      canAskAgain |-> answer.response.canAskAgain,
                      status      |-> answer.response.status]]
    ELSE [threw |-> FALSE,
          result |-> [granted |-> FALSE, canAskAgain |-> FALSE,
                      status |-> "denied"]]

----------------------------------------------------------------------------
(* Option validation: CameraUtils and the static CameraService             *)

\* An optional value is <<>> when absent (undefined) and <<v>> when present.
\* `x ?? d'
OrElse(x, d) == IF x = <<>> THEN d ELSE x[1]

\* `x || d' for a number: 0 is falsy.
OrNumber(x, d) == IF x = <<>> \/ x[1] = 0 THEN d ELSE x[1]

\* useBarcodeScanner: options?.scanInterval || 2000, counted in seconds.
DefaultScanInterval == 2

\* `x || d' for a string: '' is falsy.
OrString(x, d) == IF x = <<>> \/ x[1] = "" THEN d ELSE x[1]

\* Qualities are counted in tenths: One stands for the number 1.
One == 10

\* CAMERA_CONSTANTS.DEFAULT_QUALITY, 0.8
DEFAULT_QUALITY == 8

Min(a, b) == IF a <= b THEN a ELSE b

Max(a, b) == IF a >= b THEN a ELSE b

\* CameraUtils.validateQuality: Math.max(0, Math.min(1, quality))
validateQuality(quality) == Max(0, Min(One, quality))

\* static CameraService.getDefaultPictureOptions
getDefaultPictureOptions ==
    [quality |-> DEFAULT_QUALITY, base64 |-> FALSE, exif |-> TRUE,
     skipProcessing |-> FALSE, imageType |-> "jpg"]

\* static CameraService.validatePictureOptions
validatePictureOptions(options) ==
    LET defaults == getDefaultPictureOptions IN
      IF options = <<>> THEN defaults
      ELSE LET o == options[1] IN
        [quality        |-> IF o.quality # <<>>
                            THEN validateQuality(o.quality[1])
                            ELSE defaults.quality,
         base64         |-> OrElse(o.base64, defaults.base64),
         exif           |-> OrElse(o.exif, defaults.exif),
         skipProcessing |-> OrElse(o.skipProcessing, defaults.skipProcessing),
         imageType      |-> OrString(o.imageType, defaults.imageType)]

\* static CameraService.getDefaultVideoOptions
getDefaultVideoOptions ==
    [maxDuration |-> 30, quality |-> "1080p", mirror |-> FALSE,
     mute |-> FALSE]

\* static CameraService.validateVideoOptions
validateVideoOptions(options) ==
    LET defaults == getDefaultVideoOptions IN
      IF options = <<>> THEN defaults
      ELSE LET o == options[1] IN
        [maxDuration |-> OrNumber(o.maxDuration, defaults.maxDuration),
         quality     |-> OrString(o.quality, defaults.quality),
         mirror      |-> OrElse(o.mirror, defaults.mirror),
         mute        |-> OrElse(o.mute, defaults.mute)]

\* CAMERA_CONSTANTS.DEFAULT_ZOOM
DEFAULT_ZOOM == 0

\* CameraUtils.validateZoom, with its lower bound left out.
validateZoom_noLowerBound(zoom) == Min(One, zoom)

\* CameraUtils.validateZoom: Math.max(0, Math.min(1, zoom)).  Zoom levels are
\* counted in tenths like qualities; the numbers of the model are the finite
\* ones (NaN is not among them).
validateZoom(zoom) == Max(0, Min(One, zoom))

\* CameraUtils.getOppositeFacing
getOppositeFacing(facing) == IF facing = "back" THEN "front" ELSE "back"

\* static CameraService.getDefaultConfig, with the torch default inverted.
getDefaultConfig_torchOn ==
    [facing |-> "back", flash |-> "off", zoom |-> DEFAULT_ZOOM,
     autofocus |-> "on", mode |-> "picture", ratio |-> "4:3",
     enableTorch |-> TRUE, videoQuality |-> "1080p"]

\* static CameraService.getDefaultConfig
getDefaultConfig ==
    [facing |-> "back", flash |-> "off", zoom |-> DEFAULT_ZOOM,
     autofocus |-> "on", mode |-> "picture", ratio |-> "4:3",
     enableTorch |-> FALSE, videoQuality |-> "1080p"]

\* static CameraService.validateConfig, storing the supplied zoom as it is.
validateConfig_zoomUnclamped(partial) ==
    LET defaults == getDefaultConfig IN
      [facing       |-> OrString(partial.facing, defaults.facing),
       flash        |-> OrString(partial.flash, defaults.flash),
       zoom         |-> IF partial.zoom # <<>>
                        THEN partial.zoom[1]
                        ELSE defaults.zoom,
       autofocus    |-> OrString(partial.autofocus, defaults.autofocus),
       mode         |-> OrString(partial.mode, defaults.mode),
       ratio        |-> OrString(partial.ratio, defaults.ratio),
       enableTorch  |-> OrElse(partial.enableTorch, defaults.enableTorch),
       videoQuality |-> OrString(partial.videoQuality, defaults.videoQuality)]

\* static CameraService.validateConfig, inverting the torch flag it stores.
validateConfig_torchInverted(partial) ==
    LET defaults == getDefaultConfig IN
      [facing       |-> OrString(partial.facing, defaults.facing),
       flash        |-> OrString(partial.flash, defaults.flash),
       zoom         |-> IF partial.zoom # <<>>
                        THEN validateZoom(partial.zoom[1])
                        ELSE defaults.zoom,
       autofocus    |-> OrString(partial.autofocus, defaults.autofocus),
       mode         |-> OrString(partial.mode, defaults.mode),
       ratio        |-> OrString(partial.ratio, defaults.ratio),
       enableTorch  |-> ~OrElse(partial.enableTorch, defaults.enableTorch),
       videoQuality |-> OrString(partial.videoQuality, defaults.videoQuality)]

\* static CameraService.validateConfig.  A Partial<CameraConfig> is a record
\* of optional values.
validateConfig(partial) ==
    LET defaults == getDefaultConfig IN
      [facing       |-> OrString(partial.facing, defaults.facing),
       flash        |-> OrString(partial.flash, defaults.flash),
       zoom         |-> IF partial.zoom # <<>>
                        THEN validateZoom(partial.zoom[1])
                        ELSE defaults.zoom,
       autofocus    |-> OrString(partial.autofocus, defaults.autofocus),
       mode         |-> OrString(partial.mode, defaults.mode),
       ratio        |-> OrString(partial.ratio, defaults.ratio),
       enableTorch  |-> OrElse(partial.enableTorch, defaults.enableTorch),
       videoQuality |-> OrString(partial.videoQuality, defaults.videoQuality)]

\* The empty object literal {} as a Partial<CameraConfig>.
EmptyPartialConfig ==
    [facing |-> <<>>, flash |-> <<>>, zoom |-> <<>>, autofocus |-> <<>>,
     mode |-> <<>>, ratio |-> <<>>, enableTorch |-> <<>>,
     videoQuality |-> <<>>]

\* The numbers callers pass as zoom levels and qualities, in tenths.
ZoomInputs == (0 - ZoomMargin)..(One + ZoomMargin)

\* The values of the CameraConfig field types (domain/entities/Camera.ts).
CameraTypes == {"front", "back"}

FlashModes == {"on", "off", "auto"}

AutoFocusModes == {"on", "off"}

CameraModes == {"picture", "video"}

CameraRatios == {"4:3", "16:9", "1:1"}

\* The initialConfig callers pass to useCamera: undefined, or a partial
\* configuration.
InitialConfigInputs ==
    {<<>>} \cup
    { <<p>> : p \in [facing : {<<>>, <<"front">>},
                     flash : {<<>>, <<"auto">>},
                     zoom : {<<>>} \cup {<<z>> : z \in ZoomInputs},
                     autofocus : {<<>>, <<"off">>},
                     mode : {<<>>, <<"video">>},
                     ratio : {<<>>, <<"16:9">>},
                     enableTorch : {<<>>, <<FALSE>>, <<TRUE>>},
                     videoQuality : {<<>>, <<"720p">>}] }

\* The PictureTakeOptions callers pass to useCamera.takePicture.
PictureTakeOptionInputs ==
    {<<>>} \cup
    { <<o>> : o \in [quality : {<<>>, <<-5>>, <<5>>, <<15>>},
                     base64 : {<<>>},
                     exif : {<<>>},
                     skipProcessing : {<<>>},
                     imageType : {<<>>}] }

\* The VideoRecordOptions callers pass to useCamera.startRecording.
VideoRecordOptionInputs ==
    {<<>>} \cup
    { <<o>> : o \in [maxDuration : {<<>>, <<0>>, <<60>>},
                     quality : {<<>>},
                     mirror : {<<>>},
                     mute : {<<>>}] }

----------------------------------------------------------------------------
(* useCamera *)

BoolValue(b) == IF b THEN "true" ELSE "false"

\* The native promises the hook is awaiting.
InFlight ==
    Len(recordOps) + pictureOps + cameraRequests + microphoneRequests

\* The catch blocks of the three capture functions: each turns what was
\* thrown into an error message and lets the function's promise resolve.
\* takePicture's catch block without its setError call.
takePicture_catch_noSetError(err) ==
    [outcome |-> "resolved", value |-> NULL, error |-> NULL]

takePicture_catch(err) ==
    [outcome |-> "resolved", value |-> NULL,
     error |-> ErrorMessage(err, "Failed to take picture")]

startRecording_catch(err) ==
    [outcome |-> "resolved", value |-> "void",
     error |-> ErrorMessage(err, "Failed to start recording")]

stopRecording_catch(err) ==
    [outcome |-> "resolved", value |-> NULL,
     error |-> ErrorMessage(err, "Failed to stop recording")]

\* The local checks that precede the native call.
takePicture_guard(ref) ==
    IF ~ref THEN "Camera not ready" ELSE NULL

\* startRecording without its `if (isRecording)' check.
startRecording_guard_noRecordingCheck(ref, recording) ==
    IF ~ref THEN "Camera not ready" ELSE NULL

startRecording_guard(ref, recording) ==
    IF ~ref THEN "Camera not ready"
    ELSE IF recording THEN "Already recording"
    ELSE NULL

\* stopRecording without its `if (!isRecording)' check.
stopRecording_guard_noRecordingCheck(ref, recording) ==
    IF ~ref THEN "Camera not ready" ELSE NULL

stopRecording_guard(ref, recording) ==
    IF ~ref THEN "Camera not ready"
    ELSE IF ~recording THEN "Not recording"
    ELSE NULL

\* <CameraView ref={cameraRef}/> mounts: React sets cameraRef.current.
AttachRef ==
    /\ ~cameraRef
    /\ cameraRef' = TRUE
    /\ event' = Ev("attachRef", "none", "-", "none", "resolved", "-")
    /\ UNCHANGED <<isRecording, renderedIsRecording, error, cameraPermission,
                   microphonePermission, isReady, recordOps, pictureOps,
                   cameraRequests, microphoneRequests>>
    /\ UNCHANGED <<serviceVars, throttlerVars>>
    /\ UNCHANGED <<configVars, barcodeVars, scannerVars>>

\* The CameraView unmounts: React resets cameraRef.current to null.
DetachRef ==
    /\ cameraRef
    /\ cameraRef' = FALSE
    /\ event' = Ev("detachRef", "none", "-", "none", "resolved", "-")
    /\ UNCHANGED <<isRecording, renderedIsRecording, error, cameraPermission,
                   microphonePermission, isReady, recordOps, pictureOps,
                   cameraRequests, microphoneRequests>>
    /\ UNCHANGED <<serviceVars, throttlerVars>>
    /\ UNCHANGED <<configVars, barcodeVars, scannerVars>>

\* A re-render: startRecording and stopRecording are re-created with the
\* current isRecording (their dependency list is [isRecording]).
Render ==
    /\ renderedIsRecording # isRecording
    /\ renderedIsRecording' = isRecording
    /\ event' = Ev("render", "none", "-", "none", "resolved", "-")
    /\ UNCHANGED <<cameraRef, isRecording, error, cameraPermission,
                   microphonePermission, isReady, recordOps, pictureOps,
                   cameraRequests, microphoneRequests>>
    /\ UNCHANGED <<serviceVars, throttlerVars>>
    /\ UNCHANGED <<configVars, barcodeVars, scannerVars>>

\* requestCameraPermission up to its await.
RequestCameraPermission ==
    /\ InFlight < MaxInFlight
    /\ cameraRequests' = cameraRequests + 1
    /\ event' = Ev("requestCameraPermission",
                   "requestCameraPermissionsAsync", "-",
                   "pending", "pending", "-")
    /\ UNCHANGED <<cameraRef, isRecording, renderedIsRecording, error,
                   cameraPermission, microphonePermission, isReady, recordOps,
                   pictureOps, microphoneRequests>>
    /\ UNCHANGED <<serviceVars, throttlerVars>>
    /\ UNCHANGED <<configVars, barcodeVars, scannerVars>>

\* requestCameraPermission after its await, calling setIsReady(true) whatever
\* the result.
RequestCameraPermissionSettled_alwaysReady ==
    /\ cameraRequests > 0
    /\ cameraRequests' = cameraRequests - 1
    /\ \E answer \in NativePermissionAnswers :
         LET r == CameraService_requestCameraPermission(answer) IN
           IF r.threw
           THEN /\ error' = "Failed to request camera permission"
                /\ event' = Ev("requestCameraPermissionSettled",
                               "none", "-",
                               answer.kind, "resolved", "false")
                /\ UNCHANGED <<cameraPermission, isReady>>
           ELSE /\ cameraPermission' = r.result
                /\ isReady' = TRUE
                /\ event' = Ev("requestCameraPermissionSettled",
                               "none", "-",
                               answer.kind, "resolved",
                               BoolValue(r.result.granted))
                /\ UNCHANGED error
    /\ UNCHANGED <<cameraRef, isRecording, renderedIsRecording,
                   microphonePermission, recordOps, pictureOps,
                   microphoneRequests>>
    /\ UNCHANGED <<serviceVars, throttlerVars>>
    /\ UNCHANGED <<configVars, barcodeVars, scannerVars>>

\* requestCameraPermission after its await.
RequestCameraPermissionSettled ==
    /\ cameraRequests > 0
    /\ cameraRequests' = cameraRequests - 1
    /\ \E answer \in NativePermissionAnswers :
         LET r == CameraService_requestCameraPermission(answer) IN
           IF r.threw
           THEN /\ error' = "Failed to request camera permission"
                /\ event' = Ev("requestCameraPermissionSettled",
                               "none", "-",
                               answer.kind, "resolved", "false")
                /\ UNCHANGED <<cameraPermission, isReady>>
           ELSE /\ cameraPermission' = r.result
                /\ isReady' = r.result.granted
                /\ event' = Ev("requestCameraPermissionSettled",
                               "none", "-",
                               answer.kind, "resolved",
                               BoolValue(r.result.granted))
                /\ UNCHANGED error
    /\ UNCHANGED <<cameraRef, isRecording, renderedIsRecording,
                   microphonePermission, recordOps, pictureOps,
                   microphoneRequests>>
    /\ UNCHANGED <<serviceVars, throttlerVars>>
    /\ UNCHANGED <<configVars, barcodeVars, scannerVars>>

\* requestMicrophonePermission up to its await.
RequestMicrophonePermission ==
    /\ InFlight < MaxInFlight
    /\ microphoneRequests' = microphoneRequests + 1
    /\ event' = Ev("requestMicrophonePermission",
                   "requestMicrophonePermissionsAsync", "-",
                   "pending", "pending", "-")
    /\ UNCHANGED <<cameraRef, isRecording, renderedIsRecording, error,
                   cameraPermission, microphonePermission, isReady, recordOps,
                   pictureOps, cameraRequests>>
    /\ UNCHANGED <<serviceVars, throttlerVars>>
    /\ UNCHANGED <<configVars, barcodeVars, scannerVars>>

\* requestMicrophonePermission after its await.
RequestMicrophonePermissionSettled ==
    /\ microphoneRequests > 0
    /\ microphoneRequests' = microphoneRequests - 1
    /\ \E answer \in NativePermissionAnswers :
         LET r == CameraService_requestMicrophonePermission(answer) IN
           IF r.threw
           THEN /\ error' = "Failed to request microphone permission"
                /\ event' = Ev("requestMicrophonePermissionSettled",
                               "none", "-",
                               answer.kind, "resolved", "false")
                /\ UNCHANGED microphonePermission
           ELSE /\ microphonePermission' = r.result
                /\ event' = Ev("requestMicrophonePermissionSettled",
                               "none", "-",
                               answer.kind, "resolved",
                               BoolValue(r.result.granted))
                /\ UNCHANGED error
    /\ UNCHANGED <<cameraRef, isRecording, renderedIsRecording,
                   cameraPermission, isReady, recordOps, pictureOps,
                   cameraRequests>>
    /\ UNCHANGED <<serviceVars, throttlerVars>>
    /\ UNCHANGED <<configVars, barcodeVars, scannerVars>>

\* takePicture up to its await: setError(null), the handle check, the
\* validation of the options, then the native takePictureAsync call, which
\* hands back a promise or throws.
TakePicture ==
    /\ LET g == takePicture_guard(cameraRef) IN
         IF g # NULL
         THEN /\ error' = g
              /\ event' = Ev("takePicture", "none", "-", "none",
                             "resolved", NULL)
              /\ UNCHANGED pictureOps
         ELSE \E options \in PictureTakeOptionInputs :
              LET validatedOptions == validatePictureOptions(options) IN
              \/ /\ InFlight < MaxInFlight
                 /\ pictureOps' = pictureOps + 1
                 /\ error' = NULL
                 /\ event' = Ev("takePicture", "takePictureAsync",
                                validatedOptions, "pending", "pending", "-")
              \/ \E err \in ThrownValues :
                   LET c == takePicture_catch(err) IN
                     /\ error' = c.error
                     /\ event' = Ev("takePicture", "takePictureAsync",
                                    validatedOptions, "threw", c.outcome,
                                    c.value)
                     /\ UNCHANGED pictureOps
    /\ UNCHANGED <<cameraRef, isRecording, renderedIsRecording,
                   cameraPermission, microphonePermission, isReady, recordOps,
                   cameraRequests, microphoneRequests>>
    /\ UNCHANGED <<serviceVars, throttlerVars>>
    /\ UNCHANGED <<configVars, barcodeVars, scannerVars>>

\* takePicture after its await: the photo is returned, or the rejection is
\* caught.
TakePictureSettled ==
    /\ pictureOps > 0
    /\ pictureOps' = pictureOps - 1
    /\ \/ /\ event' = Ev("takePictureSettled", "none", "-", "resolved",
                         "resolved", "photo")
          /\ UNCHANGED error
       \/ \E err \in ThrownValues :
            LET c == takePicture_catch(err) IN
              /\ error' = c.error
              /\ event' = Ev("takePictureSettled", "none", "-", "rejected",
                             c.outcome, c.value)
    /\ UNCHANGED <<cameraRef, isRecording, renderedIsRecording,
                   cameraPermission, microphonePermission, isReady, recordOps,
                   cameraRequests, microphoneRequests>>
    /\ UNCHANGED <<serviceVars, throttlerVars>>
    /\ UNCHANGED <<configVars, barcodeVars, scannerVars>>

\* startRecording up to its await: setError(null), the handle check, the
\* isRecording check on the value the callback captured, the validation of
\* the options, setIsRecording(true) and the native recordAsync call.
StartRecording ==
    /\ LET g == startRecording_guard(cameraRef, renderedIsRecording) IN
         IF g # NULL
         THEN /\ error' = g
              /\ event' = Ev("startRecording", "none", "-", "none", "resolved",
                             "void")
              /\ UNCHANGED <<isRecording, recordOps>>
         ELSE \E options \in VideoRecordOptionInputs :
              LET validatedOptions == validateVideoOptions(options) IN
              \/ /\ InFlight < MaxInFlight
                 /\ recordOps' = Append(recordOps, FALSE)
                 /\ isRecording' = TRUE
                 /\ error' = NULL
                 /\ event' = Ev("startRecording", "recordAsync",
                                validatedOptions, "pending", "pending", "-")
              \/ \E err \in ThrownValues :
                   LET c == startRecording_catch(err) IN
                     /\ error' = c.error
                     /\ isRecording' = FALSE
                     /\ event' = Ev("startRecording", "recordAsync",
                                    validatedOptions, "threw", c.outcome,
                                    c.value)
                     /\ UNCHANGED recordOps
    /\ UNCHANGED <<cameraRef, renderedIsRecording, cameraPermission,
                   microphonePermission, isReady, pictureOps, cameraRequests,
                   microphoneRequests>>
    /\ UNCHANGED <<serviceVars, throttlerVars>>
    /\ UNCHANGED <<configVars, barcodeVars, scannerVars>>

RemoveAt(s, i) == SubSeq(s, 1, i - 1) \o SubSeq(s, i + 1, Len(s))

\* startRecording after its await: when recordAsync resolves the function
\* returns; when it rejects the catch block runs.
StartRecordingSettled ==
    \E i \in 1..Len(recordOps) :
      /\ recordOps' = RemoveAt(recordOps, i)
      /\ \/ /\ event' = Ev("startRecordingSettled", "none", "-", "resolved",
                           "resolved", "void")
            /\ UNCHANGED <<error, isRecording>>
         \/ \E err \in ThrownValues :
              LET c == startRecording_catch(err) IN
                /\ error' = c.error
                /\ isRecording' = FALSE
                /\ event' = Ev("startRecordingSettled", "none", "-", "rejected",
                               c.outcome, c.value)
      /\ UNCHANGED <<cameraRef, renderedIsRecording, cameraPermission,
                     microphonePermission, isReady, pictureOps,
                     cameraRequests, microphoneRequests>>
      /\ UNCHANGED <<serviceVars, throttlerVars>>
    /\ UNCHANGED <<configVars, barcodeVars, scannerVars>>

\* stopRecording (it has no await): setError(null), the handle check, the
\* isRecording check on the captured value, the native stopRecording call
\* and setIsRecording(false).
StopRecording ==
    /\ LET g == stopRecording_guard(cameraRef, renderedIsRecording) IN
         IF g # NULL
         THEN /\ error' = g
              /\ event' = Ev("stopRecording", "none", "-", "none",
                             "resolved", NULL)
              /\ UNCHANGED <<isRecording, recordOps>>
         ELSE \/ /\ recordOps' = [i \in 1..Len(recordOps) |-> TRUE]
                 /\ isRecording' = FALSE
                 /\ error' = NULL
                 /\ event' = Ev("stopRecording", "stopRecording", "-",
                                "returned",
                                "resolved", NULL)
              \/ \E err \in ThrownValues :
                   LET c == stopRecording_catch(err) IN
                     /\ error' = c.error
                     /\ isRecording' = FALSE
                     /\ event' = Ev("stopRecording", "stopRecording", "-",
                                    "threw",
                                    c.outcome, c.value)
                     /\ UNCHANGED recordOps
    /\ UNCHANGED <<cameraRef, renderedIsRecording, cameraPermission,
                   microphonePermission, isReady, pictureOps, cameraRequests,
                   microphoneRequests>>
    /\ UNCHANGED <<serviceVars, throttlerVars>>
    /\ UNCHANGED <<configVars, barcodeVars, scannerVars>>

\* useCamera called without an initialConfig.
InitConfigIdle == config = validateConfig(EmptyPartialConfig)

\* No scan result is in hand.
InitBarcodeIdle ==
    /\ scanType = <<>>
    /\ scanData = <<>>

\* useBarcodeScanner called without options.
InitScannerIdle ==
    /\ isScanning = FALSE
    /\ lastScannedCode = <<>>
    /\ validationResult = <<>>
    /\ scanInterval = DefaultScanInterval
    /\ renderedScanInterval = DefaultScanInterval
    /\ onBarcodeScannesRef = "none"

Init ==
    /\ cameraRef = FALSE
    /\ isRecording = FALSE
    /\ renderedIsRecording = FALSE
    /\ error = NULL
    /\ cameraPermission = NullPermission
    /\ microphonePermission = NullPermission
    /\ isReady = FALSE
    /\ recordOps = <<>>
    /\ pictureOps = 0
    /\ cameraRequests = 0
    /\ microphoneRequests = 0
    /\ serviceCameraRef = FALSE
    /\ now = 0
    /\ intervalMs = 0
    /\ lastScanTime = 0
    /\ recordedAt = <<>>
    /\ InitConfigIdle
    /\ InitBarcodeIdle
    /\ InitScannerIdle
    /\ event = Ev("init", "none", "-", "none", "resolved", "-")

Next ==
    \/ AttachRef
    \/ DetachRef
    \/ Render
    \/ RequestCameraPermission
    \/ RequestCameraPermissionSettled
    \/ RequestMicrophonePermission
    \/ RequestMicrophonePermissionSettled
    \/ TakePicture
    \/ TakePictureSettled
    \/ StartRecording
    \/ StartRecordingSettled
    \/ StopRecording

Spec == Init /\ [][Next]_vars

----------------------------------------------------------------------------
(* The permission / capture facade: static permission requests and the     *)
(* instance CameraService                                                  *)

\* `options.quality ?? 1', in tenths
ServiceDefaultQuality == 10

ServiceDefaultMaxDuration == 60

\* Callers' PictureOptions.
PictureOptionInputs ==
    [quality : {<<>>, <<-5>>, <<0>>, <<8>>, <<10>>, <<15>>},
     skipProcessing : {<<>>, <<TRUE>>},
     exif : {<<>>, <<TRUE>>}]

\* Callers' VideoOptions.
VideoOptionInputs ==
    [maxDuration : {<<>>, <<30>>},
     maxFileSize : {<<>>, <<1000>>},
     mute : {<<>>, <<TRUE>>}]

\* How a native capture call ends: with a result, with no result
\* (undefined), or by throwing.
NativeCaptureAnswers ==
    { [kind |-> "ok", thrown |-> NoThrow],
      [kind |-> "empty", thrown |-> NoThrow] }
    \cup { [kind |-> "throw", thrown |-> e] : e \in ThrownValues }

\* Reading a property of undefined throws a TypeError.
TypeError == [isError |-> TRUE, message |-> "TypeError"]

\* A thrown CameraError object literal: it is not an instance of Error.
CameraError(code, message) ==
    [isError |-> FALSE, code |-> code, message |-> message]

ServiceEv(op, native, arg, nativeResult, outcome, code, message, value) ==
    [op |-> op, native |-> native, arg |-> arg, nativeResult |-> nativeResult,
     outcome |-> outcome, code |-> code, message |-> message, value |-> value]

\* instance CameraService.requestPermissions
CameraService_requestPermissions(answer) ==
    IF answer.kind = "ok"
    THEN [granted     |-> answer.response.granted,
          canAskAgain |-> answer.response.canAskAgain,
          status      |-> answer.response.status]
    ELSE [granted |-> FALSE, canAskAgain |-> TRUE, status |-> "denied"]

\* The catch block of CameraService.takePicture.
CameraService_takePicture_catch(err) ==
    [outcome |-> "rejected", code |-> "PICTURE_ERROR",
     message |-> ErrorMessage(err, "Failed to take picture"), value |-> "-"]

\* CameraService.takePicture with its handle check moved inside the try
\* block, so that its own NO_CAMERA_REF error is caught and re-coded.
CameraService_takePicture_checkInsideTry(ref, options, answer) ==
    LET pictureOptions ==
            [quality        |-> OrElse(options.quality, ServiceDefaultQuality),
             skipProcessing |-> OrElse(options.skipProcessing, FALSE),
             exif           |-> OrElse(options.exif, FALSE)]
    IN  IF ~ref
        THEN [native |-> "none", arg |-> "-"] @@
             CameraService_takePicture_catch(
                 CameraError("NO_CAMERA_REF", "Camera reference not set"))
        ELSE [native |-> "takePictureAsync", arg |-> pictureOptions] @@
             (IF answer.kind = "ok"
              THEN [outcome |-> "resolved", code |-> "-", message |-> "-",
                    value |-> "picture"]
              ELSE IF answer.kind = "empty"
              THEN CameraService_takePicture_catch(TypeError)
              ELSE CameraService_takePicture_catch(answer.thrown))

\* instance CameraService.takePicture: what it calls and how it settles.
CameraService_takePicture(ref, options, answer) ==
    LET pictureOptions ==
            [quality        |-> OrElse(options.quality, ServiceDefaultQuality),
             skipProcessing |-> OrElse(options.skipProcessing, FALSE),
             exif           |-> OrElse(options.exif, FALSE)]
    IN  IF ~ref
        THEN [native |-> "none", arg |-> "-", outcome |-> "rejected",
              code |-> "NO_CAMERA_REF",
              message |-> "Camera reference not set", value |-> "-"]
        ELSE [native |-> "takePictureAsync", arg |-> pictureOptions] @@
             (IF answer.kind = "ok"
              THEN [outcome |-> "resolved", code |-> "-", message |-> "-",
                    value |-> "picture"]
              ELSE IF answer.kind = "empty"
              THEN CameraService_takePicture_catch(TypeError)
              ELSE CameraService_takePicture_catch(answer.thrown))

\* The catch block of CameraService.recordVideo.
CameraService_recordVideo_catch(err) ==
    [outcome |-> "rejected", code |-> "VIDEO_ERROR",
     message |-> ErrorMessage(err, "Failed to record video"), value |-> "-"]

\* instance CameraService.recordVideo: the `no result' error is thrown
\* inside the try block and therefore passes through the catch block.
CameraService_recordVideo(ref, options, answer) ==
    LET videoOptions ==
            [maxDuration |-> OrElse(options.maxDuration,
                                    ServiceDefaultMaxDuration),
             maxFileSize |-> options.maxFileSize,
             mute        |-> OrElse(options.mute, FALSE)]
    IN  IF ~ref
        THEN [native |-> "none", arg |-> "-", outcome |-> "rejected",
              code |-> "NO_CAMERA_REF",
              message |-> "Camera reference not set", value |-> "-"]
        ELSE [native |-> "recordAsync", arg |-> videoOptions] @@
             (IF answer.kind = "ok"
              THEN [outcome |-> "resolved", code |-> "-", message |-> "-",
                    value |-> "video"]
              ELSE IF answer.kind = "empty"
              THEN CameraService_recordVideo_catch(
                       CameraError("VIDEO_RECORDING_FAILED",
                           "Video recording failed - no result returned"))
              ELSE CameraService_recordVideo_catch(answer.thrown))

NativeResult(r, answer) ==
    IF r.native = "none" THEN "none"
    ELSE IF answer.kind = "throw" THEN "threw"
    ELSE IF answer.kind = "empty" THEN "empty"
    ELSE "resolved"

\* setCameraRef(camera)
SetCameraRef ==
    /\ \E camera \in BOOLEAN :
         /\ serviceCameraRef' = camera
         /\ event' = ServiceEv("setCameraRef", "none", "-", "none", "returned",
                               "-", "-", BoolValue(camera))
    /\ UNCHANGED <<hookVars, throttlerVars>>
    /\ UNCHANGED <<configVars, barcodeVars, scannerVars>>

\* A call of static CameraService.requestCameraPermission.
CallRequestCameraPermission ==
    /\ \E answer \in NativePermissionAnswers :
         LET r == CameraService_requestCameraPermission(answer) IN
           event' = ServiceEv("requestCameraPermission",
                              "requestCameraPermissionsAsync", "-",
                              answer.kind,
                              IF r.threw THEN "rejected" ELSE "resolved",
                              "-", "-", r.result)
    /\ UNCHANGED <<hookVars, serviceVars, throttlerVars>>
    /\ UNCHANGED <<configVars, barcodeVars, scannerVars>>

\* A call of static CameraService.requestMicrophonePermission.
CallRequestMicrophonePermission ==
    /\ \E answer \in NativePermissionAnswers :
         LET r == CameraService_requestMicrophonePermission(answer) IN
           event' = ServiceEv("requestMicrophonePermission",
                              "requestMicrophonePermissionsAsync", "-",
                              answer.kind,
                              IF r.threw THEN "rejected" ELSE "resolved",
                              "-", "-", r.result)
    /\ UNCHANGED <<hookVars, serviceVars, throttlerVars>>
    /\ UNCHANGED <<configVars, barcodeVars, scannerVars>>

\* A call of the instance's requestPermissions.
CallRequestPermissions ==
    /\ \E answer \in NativePermissionAnswers :
         event' = ServiceEv("requestPermissions",
                            "requestCameraPermissionsAsync", "-", answer.kind,
                            "resolved", "-", "-",
                            CameraService_requestPermissions(answer))
    /\ UNCHANGED <<hookVars, serviceVars, throttlerVars>>
    /\ UNCHANGED <<configVars, barcodeVars, scannerVars>>

\* A call of the instance's takePicture.
CallTakePicture ==
    /\ \E options \in PictureOptionInputs, answer \in NativeCaptureAnswers :
         LET r == CameraService_takePicture(serviceCameraRef, options, answer)
         IN  event' = ServiceEv("takePicture", r.native, r.arg,
                                NativeResult(r, answer), r.outcome, r.code,
                                r.message, r.value)
    /\ UNCHANGED <<hookVars, serviceVars, throttlerVars>>
    /\ UNCHANGED <<configVars, barcodeVars, scannerVars>>

\* A call of the instance's recordVideo.
CallRecordVideo ==
    /\ \E options \in VideoOptionInputs, answer \in NativeCaptureAnswers :
         LET r == CameraService_recordVideo(serviceCameraRef, options, answer)
         IN  event' = ServiceEv("recordVideo", r.native, r.arg,
                                NativeResult(r, answer), r.outcome, r.code,
                                r.message, r.value)
    /\ UNCHANGED <<hookVars, serviceVars, throttlerVars>>
    /\ UNCHANGED <<configVars, barcodeVars, scannerVars>>

\* A call of the instance's stopRecording: it is not async and has no try
\* block, so whatever the native stopRecording throws leaves it unchanged.
CallStopRecording ==
    /\ IF ~serviceCameraRef
       THEN event' = ServiceEv("stopRecording", "none", "-", "none",
                               "returned", "-", "-", "void")
       ELSE \/ event' = ServiceEv("stopRecording", "stopRecording", "-",
                                  "returned", "returned", "-", "-", "void")
            \/ \E err \in ThrownValues :
                 event' = ServiceEv("stopRecording", "stopRecording", "-",
                                    "threw", "threw", NULL, err.message, "-")
    /\ UNCHANGED <<hookVars, serviceVars, throttlerVars>>
    /\ UNCHANGED <<configVars, barcodeVars, scannerVars>>

InitHookIdle ==
    /\ cameraRef = FALSE
    /\ isRecording = FALSE
    /\ renderedIsRecording = FALSE
    /\ error = NULL
    /\ cameraPermission = NullPermission
    /\ microphonePermission = NullPermission
    /\ isReady = FALSE
    /\ recordOps = <<>>
    /\ pictureOps = 0
    /\ cameraRequests = 0
    /\ microphoneRequests = 0

InitService ==
    /\ InitHookIdle
    /\ serviceCameraRef = FALSE
    /\ now = 0
    /\ intervalMs = 0
    /\ lastScanTime = 0
    /\ recordedAt = <<>>
    /\ InitConfigIdle
    /\ InitBarcodeIdle
    /\ InitScannerIdle
    /\ event = ServiceEv("init", "none", "-", "none", "returned", "-", "-",
                         "-")

NextService ==
    \/ SetCameraRef
    \/ CallRequestCameraPermission
    \/ CallRequestMicrophonePermission
    \/ CallRequestPermissions
    \/ CallTakePicture
    \/ CallRecordVideo
    \/ CallStopRecording

SpecService == InitService /\ [][NextService]_vars

----------------------------------------------------------------------------
(* BarcodeScannerService.createScanThrottler *)

Intervals == 0..MaxInterval

\* canScan() with `>' written for `>='.
canScan_strict(time, last, interval) == time - last > interval

\* canScan(): `now - lastScanTime >= intervalMs'
canScan(time, last, interval) == time - last >= interval

\* The throttler's recordScan(), storing the epoch instead of Date.now().
recordScan_epoch(time) == 0

\* recordScan(): `lastScanTime = Date.now()'
recordScan(time) == time

\* The clock advances.
Tick ==
    /\ now < MaxClock
    /\ \E t \in (now + 1)..MaxClock : now' = t
    /\ event' = Ev("tick", "none", "-", "none", "returned", "-")
    /\ UNCHANGED <<intervalMs, lastScanTime, recordedAt>>
    /\ UNCHANGED <<hookVars, serviceVars>>
    /\ UNCHANGED <<configVars, barcodeVars, scannerVars>>

\* createScanThrottler(intervalMs): a new closure with lastScanTime = 0.
CreateScanThrottler ==
    /\ \E interval \in Intervals : intervalMs' = interval
    /\ lastScanTime' = 0
    /\ recordedAt' = <<>>
    /\ event' = Ev("createScanThrottler", "none", "-", "none", "returned", "-")
    /\ UNCHANGED now
    /\ UNCHANGED <<hookVars, serviceVars>>
    /\ UNCHANGED <<configVars, barcodeVars, scannerVars>>

\* A call of the throttler's canScan().
CanScan ==
    /\ event' = Ev("canScan", "none", "-", "none", "returned",
                   BoolValue(canScan(now, lastScanTime, intervalMs)))
    /\ UNCHANGED <<now, intervalMs, lastScanTime, recordedAt>>
    /\ UNCHANGED <<hookVars, serviceVars>>
    /\ UNCHANGED <<configVars, barcodeVars, scannerVars>>

\* A call of the throttler's recordScan().
RecordScan ==
    /\ lastScanTime' = recordScan(now)
    /\ recordedAt' = <<now>>
    /\ event' = Ev("recordScan", "none", "-", "none", "returned", "-")
    /\ UNCHANGED <<now, intervalMs>>
    /\ UNCHANGED <<hookVars, serviceVars>>
    /\ UNCHANGED <<configVars, barcodeVars, scannerVars>>

\* A throttler has just been created, at any clock value.
InitThrottler ==
    /\ InitHookIdle
    /\ serviceCameraRef = FALSE
    /\ now \in 0..MaxClock
    /\ intervalMs \in Intervals
    /\ lastScanTime = 0
    /\ recordedAt = <<>>
    /\ InitConfigIdle
    /\ InitBarcodeIdle
    /\ InitScannerIdle
    /\ event = Ev("createScanThrottler", "none", "-", "none", "returned", "-")

NextThrottler ==
    \/ Tick
    \/ CreateScanThrottler
    \/ CanScan
    \/ RecordScan

SpecThrottler == InitThrottler /\ [][NextThrottler]_vars

----------------------------------------------------------------------------
(* useCamera configuration                                                 *)

\* A CameraConfig read as a Partial<CameraConfig>: every field is present.
AsPartial(c) ==
    [facing |-> <<c.facing>>, flash |-> <<c.flash>>, zoom |-> <<c.zoom>>,
     autofocus |-> <<c.autofocus>>, mode |-> <<c.mode>>,
     ratio |-> <<c.ratio>>, enableTorch |-> <<c.enableTorch>>,
     videoQuality |-> <<c.videoQuality>>]

\* useCamera(initialConfig): the initializer of the config state,
\* CameraService.validateConfig(initialConfig || {}).
useCamera_initialState(initialConfig) ==
    validateConfig(OrElse(initialConfig, EmptyPartialConfig))

\* setFacing(facing): setConfig(prev => ({ ...prev, facing }))
SetFacing ==
    /\ \E facing \in CameraTypes :
         /\ config' = [config EXCEPT !.facing = facing]
         /\ event' = Ev("setFacing", "none", facing, "none", "returned", "-")
    /\ UNCHANGED <<hookVars, serviceVars, throttlerVars>>
    /\ UNCHANGED <<barcodeVars, scannerVars>>

\* setFlash(flash)
SetFlash ==
    /\ \E flash \in FlashModes :
         /\ config' = [config EXCEPT !.flash = flash]
         /\ event' = Ev("setFlash", "none", flash, "none", "returned", "-")
    /\ UNCHANGED <<hookVars, serviceVars, throttlerVars>>
    /\ UNCHANGED <<barcodeVars, scannerVars>>

\* setZoom(zoom): the zoom is validated, then stored.
SetZoom ==
    /\ \E zoom \in ZoomInputs :
         LET validatedZoom == validateZoom(zoom) IN
           /\ config' = [config EXCEPT !.zoom = validatedZoom]
           /\ event' = Ev("setZoom", "none", zoom, "none", "returned",
                          validatedZoom)
    /\ UNCHANGED <<hookVars, serviceVars, throttlerVars>>
    /\ UNCHANGED <<barcodeVars, scannerVars>>

\* setAutofocus(autofocus)
SetAutofocus ==
    /\ \E autofocus \in AutoFocusModes :
         /\ config' = [config EXCEPT !.autofocus = autofocus]
         /\ event' = Ev("setAutofocus", "none", autofocus, "none",
                        "returned", "-")
    /\ UNCHANGED <<hookVars, serviceVars, throttlerVars>>
    /\ UNCHANGED <<barcodeVars, scannerVars>>

\* setMode(mode), building the new config from the defaults instead of prev.
SetMode_fromDefaults ==
    /\ \E mode \in CameraModes :
         /\ config' = [getDefaultConfig EXCEPT !.mode = mode]
         /\ event' = Ev("setMode", "none", mode, "none", "returned", "-")
    /\ UNCHANGED <<hookVars, serviceVars, throttlerVars>>
    /\ UNCHANGED <<barcodeVars, scannerVars>>

\* setMode(mode)
SetMode ==
    /\ \E mode \in CameraModes :
         /\ config' = [config EXCEPT !.mode = mode]
         /\ event' = Ev("setMode", "none", mode, "none", "returned", "-")
    /\ UNCHANGED <<hookVars, serviceVars, throttlerVars>>
    /\ UNCHANGED <<barcodeVars, scannerVars>>

\* setRatio(ratio)
SetRatio ==
    /\ \E ratio \in CameraRatios :
         /\ config' = [config EXCEPT !.ratio = ratio]
         /\ event' = Ev("setRatio", "none", ratio, "none", "returned", "-")
    /\ UNCHANGED <<hookVars, serviceVars, throttlerVars>>
    /\ UNCHANGED <<barcodeVars, scannerVars>>

\* toggleTorch()
ToggleTorch ==
    /\ config' = [config EXCEPT !.enableTorch = ~config.enableTorch]
    /\ event' = Ev("toggleTorch", "none", "-", "none", "returned", "-")
    /\ UNCHANGED <<hookVars, serviceVars, throttlerVars>>
    /\ UNCHANGED <<barcodeVars, scannerVars>>

\* toggleFacing()
ToggleFacing ==
    /\ config' = [config EXCEPT !.facing = getOppositeFacing(config.facing)]
    /\ event' = Ev("toggleFacing", "none", "-", "none", "returned", "-")
    /\ UNCHANGED <<hookVars, serviceVars, throttlerVars>>
    /\ UNCHANGED <<barcodeVars, scannerVars>>

\* A caller hands the hook's config back to CameraService.validateConfig.
CallValidateConfig ==
    /\ event' = Ev("validateConfig", "none", AsPartial(config), "none",
                   "returned", validateConfig(AsPartial(config)))
    /\ UNCHANGED <<hookVars, serviceVars, throttlerVars>>
    /\ UNCHANGED <<configVars, barcodeVars, scannerVars>>

\* A caller calls CameraUtils.validateZoom.
CallValidateZoom ==
    /\ \E zoom \in ZoomInputs :
         event' = Ev("validateZoom", "none", zoom, "none", "returned",
                     validateZoom(zoom))
    /\ UNCHANGED <<hookVars, serviceVars, throttlerVars>>
    /\ UNCHANGED <<configVars, barcodeVars, scannerVars>>

\* A caller calls CameraUtils.validateQuality.
CallValidateQuality ==
    /\ \E quality \in ZoomInputs :
         event' = Ev("validateQuality", "none", quality, "none", "returned",
                     validateQuality(quality))
    /\ UNCHANGED <<hookVars, serviceVars, throttlerVars>>
    /\ UNCHANGED <<configVars, barcodeVars, scannerVars>>

\* useCamera has just been called with some initialConfig.
InitConfig ==
    /\ InitHookIdle
    /\ serviceCameraRef = FALSE
    /\ now = 0
    /\ intervalMs = 0
    /\ lastScanTime = 0
    /\ recordedAt = <<>>
    /\ InitBarcodeIdle
    /\ InitScannerIdle
    /\ \E initialConfig \in InitialConfigInputs :
         /\ config = useCamera_initialState(initialConfig)
         /\ event = Ev("useCamera", "none", initialConfig, "none",
                       "returned", config)

NextConfig ==
    \/ SetFacing
    \/ SetFlash
    \/ SetZoom
    \/ SetAutofocus
    \/ SetMode
    \/ SetRatio
    \/ ToggleTorch
    \/ ToggleFacing
    \/ CallValidateConfig
    \/ CallValidateZoom
    \/ CallValidateQuality

SpecConfig == InitConfig /\ [][NextConfig]_vars

----------------------------------------------------------------------------
(* Barcode functions: CameraUtils and BarcodeScannerService                *)

\* A symbology string is a sequence of characters.  toLowerCase and
\* toUpperCase map the letters below and leave every other character alone.
LowerLetters ==
    <<"a", "b", "c", "d", "e", "f", "g", "h", "i", "j", "k", "l", "m",
      "n", "o", "p", "q", "r", "s", "t", "u", "v", "w", "x", "y", "z">>

UpperLetters ==
    <<"A", "B", "C", "D", "E", "F", "G", "H", "I", "J", "K", "L", "M",
      "N", "O", "P", "Q", "R", "S", "T", "U", "V", "W", "X", "Y", "Z">>

LetterIndexes == 1..Len(LowerLetters)

toLowerCaseChar(c) ==
    IF \E i \in LetterIndexes : UpperLetters[i] = c
    THEN LowerLetters[CHOOSE i \in LetterIndexes : UpperLetters[i] = c]
    ELSE c

toUpperCaseChar(c) ==
    IF \E i \in LetterIndexes : LowerLetters[i] = c
    THEN UpperLetters[CHOOSE i \in LetterIndexes : LowerLetters[i] = c]
    ELSE c

\* String.prototype.toLowerCase
toLowerCase(str) == [i \in 1..Len(str) |-> toLowerCaseChar(str[i])]

\* String.prototype.toUpperCase
toUpperCase(str) == [i \in 1..Len(str) |-> toUpperCaseChar(str[i])]

\* Object.values(BarcodeType), in declaration order.
BarcodeTypeValues ==
    <<<<"q", "r">>,
      <<"p", "d", "f", "4", "1", "7">>,
      <<"a", "z", "t", "e", "c">>,
      <<"c", "o", "d", "e", "3", "9">>,
      <<"c", "o", "d", "e", "9", "3">>,
      <<"c", "o", "d", "e", "1", "2", "8">>,
      <<"d", "a", "t", "a", "m", "a", "t", "r", "i", "x">>,
      <<"e", "a", "n", "8">>,
      <<"e", "a", "n", "1", "3">>,
      <<"i", "t", "f", "1", "4">>,
      <<"u", "p", "c", "_", "e">>,
      <<"u", "p", "c", "_", "a">>>>

\* BarcodeScannerService.getProductBarcodeTypes
getProductBarcodeTypes ==
    <<<<"e", "a", "n", "8">>,
      <<"e", "a", "n", "1", "3">>,
      <<"u", "p", "c", "_", "a">>,
      <<"u", "p", "c", "_", "e">>,
      <<"c", "o", "d", "e", "1", "2", "8">>>>

\* The symbology strings the native scanner reports.
TypeInputs ==
    {<<"q", "r">>,
     <<"Q", "R">>,
     <<"Q", "r">>,
     <<"e", "a", "n", "1", "3">>,
     <<"E", "A", "N", "1", "3">>,
     <<"E", "a", "n", "1", "3">>,
     <<"e", "a", "n", "8">>,
     <<"u", "p", "c", "_", "a">>,
     <<"U", "P", "C", "_", "A">>,
     <<"u", "p", "c", "_", "e">>,
     <<"c", "o", "d", "e", "1", "2", "8">>,
     <<"C", "o", "d", "e", "1", "2", "8">>,
     <<"p", "d", "f", "4", "1", "7">>,
     <<"z", "z">>,
     <<>>}

\* Scanned data is a sequence of tokens, each standing for the characters it
\* spells; no token is a prefix of another.
DataTokens == {" ", ":", "BEGIN", "VCARD", "http"}

Words == {"BEGIN", "VCARD", "http"}

\* The data strings the native scanner reports.
DataInputs == UNION { [1..n -> DataTokens] : n \in 0..MaxDataLen }

\* String.prototype.trim: whitespace is removed from both ends.
RECURSIVE trimStart(_)
trimStart(str) ==
    IF str # <<>> /\ Head(str) = " " THEN trimStart(Tail(str)) ELSE str

RECURSIVE trimEnd(_)
trimEnd(str) ==
    IF str # <<>> /\ str[Len(str)] = " "
    THEN trimEnd(SubSeq(str, 1, Len(str) - 1))
    ELSE str

trim(str) == trimEnd(trimStart(str))

\* String.prototype.startsWith
startsWith(str, prefix) ==
    /\ Len(str) >= Len(prefix)
    /\ SubSeq(str, 1, Len(prefix)) = prefix

\* The index of the first ":" of a string, 0 when it has none.
IndexOfColon(str) ==
    IF \E i \in 1..Len(str) : str[i] = ":"
    THEN CHOOSE i \in 1..Len(str) :
           str[i] = ":" /\ \A j \in 1..(i - 1) : str[j] # ":"
    ELSE 0

\* new URL(data) without a base, as the URL Standard parses it: whether the
\* constructor returns (TRUE) or throws a TypeError (FALSE).  Leading and
\* trailing spaces are stripped.  The input must start with a scheme, letters
\* up to a ":".  After a scheme other than http anything is an opaque path.
\* After "http:" a host is required: non-empty, free of spaces, optionally
\* followed by ":" and a port; the tokens spell no digits, so the only port
\* that parses is the empty one.
URL_parses(data) ==
    LET input == trim(data)
        colon == IndexOfColon(input)
        scheme == SubSeq(input, 1, colon - 1)
        rest == SubSeq(input, colon + 1, Len(input))
        hostEnd == IndexOfColon(rest)
        host == IF hostEnd = 0 THEN rest ELSE SubSeq(rest, 1, hostEnd - 1)
        port == IF hostEnd = 0 THEN <<>>
                ELSE SubSeq(rest, hostEnd + 1, Len(rest))
    IN  /\ colon > 1
        /\ \A i \in 1..Len(scheme) : scheme[i] \in Words
        /\ scheme = <<"http">> =>
             /\ host # <<>>
             /\ \A i \in 1..Len(host) : host[i] \in Words
             /\ port = <<>>

\* CameraUtils.parseBarcodeType: <<v>> for the matching enum value, <<>> for
\* null.
parseBarcodeType(type) ==
    LET upperType == toUpperCase(type)
        matches == { i \in 1..Len(BarcodeTypeValues) :
                       toUpperCase(BarcodeTypeValues[i]) = upperType }
    IN  IF matches = {} THEN <<>>
        ELSE <<BarcodeTypeValues[CHOOSE i \in matches :
                                   \A j \in matches : i <= j]>>

\* CameraUtils.isQRCode, comparing the type as reported.
isQRCode_caseSensitive(type) == type = <<"q", "r">>

\* CameraUtils.isQRCode
isQRCode(type) == toLowerCase(type) = <<"q", "r">>

\* CameraUtils.formatBarcodeData
formatBarcodeData(type, data) ==
    IF isQRCode(type)
    THEN IF URL_parses(data) THEN <<"URL: ">> \o data ELSE data
    ELSE <<"Barcode: ">> \o data

\* BarcodeScannerService.validateBarcode, comparing the data with '' as it
\* is, not trimmed.
validateBarcode_noTrim(result) ==
    IF result.data = <<>>
    THEN [valid |-> FALSE, type |-> <<>>, data |-> result.data,
          formatted |-> <<>>, error |-> <<"Empty barcode data">>]
    ELSE [valid |-> TRUE, type |-> parseBarcodeType(result.type),
          data |-> result.data,
          formatted |-> formatBarcodeData(result.type, result.data),
          error |-> <<>>]

\* BarcodeScannerService.validateBarcode
validateBarcode(result) ==
    IF result.data = <<>> \/ trim(result.data) = <<>>
    THEN [valid |-> FALSE, type |-> <<>>, data |-> result.data,
          formatted |-> <<>>, error |-> <<"Empty barcode data">>]
    ELSE [valid |-> TRUE, type |-> parseBarcodeType(result.type),
          data |-> result.data,
          formatted |-> formatBarcodeData(result.type, result.data),
          error |-> <<>>]

\* BarcodeScannerService.isURL
isURL(data) == URL_parses(data)

\* The productTypes literal of BarcodeScannerService.isProductBarcode.
productTypes ==
    <<<<"e", "a", "n", "8">>,
      <<"e", "a", "n", "1", "3">>,
      <<"u", "p", "c", "_", "a">>,
      <<"u", "p", "c", "_", "e">>,
      <<"c", "o", "d", "e", "1", "2", "8">>>>

\* Array.prototype.includes
includes(array, value) == \E i \in 1..Len(array) : array[i] = value

\* BarcodeScannerService.isProductBarcode, comparing the type as reported.
isProductBarcode_caseSensitive(type) == includes(productTypes, type)

\* BarcodeScannerService.isProductBarcode
isProductBarcode(type) == includes(productTypes, toLowerCase(type))

\* BarcodeScannerService.parseQRCodeData
parseQRCodeData(data) ==
    IF isURL(data) THEN [type |-> "url", content |-> data]
    ELSE IF startsWith(data, <<"BEGIN", ":", "VCARD">>)
    THEN [type |-> "vcard", content |-> data]
    ELSE [type |-> "text", content |-> data]

\* The scan result in hand.
ScanResult == [type |-> scanType, data |-> scanData]

\* A caller validates the scan result.
CallValidateBarcode ==
    /\ event' = Ev("validateBarcode", "none", ScanResult, "none", "returned",
                   validateBarcode(ScanResult))
    /\ UNCHANGED <<hookVars, serviceVars, throttlerVars>>
    /\ UNCHANGED <<configVars, barcodeVars, scannerVars>>

\* A caller asks whether the scanned data is a URL.
CallIsURL ==
    /\ event' = Ev("isURL", "none", scanData, "none", "returned",
                   isURL(scanData))
    /\ UNCHANGED <<hookVars, serviceVars, throttlerVars>>
    /\ UNCHANGED <<configVars, barcodeVars, scannerVars>>

\* A caller asks whether the scanned type is a product barcode.
CallIsProductBarcode ==
    /\ event' = Ev("isProductBarcode", "none", scanType, "none", "returned",
                   isProductBarcode(scanType))
    /\ UNCHANGED <<hookVars, serviceVars, throttlerVars>>
    /\ UNCHANGED <<configVars, barcodeVars, scannerVars>>

\* A caller classifies the scanned data.
CallParseQRCodeData ==
    /\ event' = Ev("parseQRCodeData", "none", scanData, "none", "returned",
                   parseQRCodeData(scanData))
    /\ UNCHANGED <<hookVars, serviceVars, throttlerVars>>
    /\ UNCHANGED <<configVars, barcodeVars, scannerVars>>

\* useProductBarcodeScanner: the barcode types it hands to
\* useBarcodeScanner.
UseProductBarcodeScanner ==
    /\ event' = Ev("useProductBarcodeScanner", "none", "-", "none",
                   "returned", getProductBarcodeTypes)
    /\ UNCHANGED <<hookVars, serviceVars, throttlerVars>>
    /\ UNCHANGED <<configVars, barcodeVars, scannerVars>>

\* The native scanner has reported some result.
InitBarcode ==
    /\ InitHookIdle
    /\ serviceCameraRef = FALSE
    /\ now = 0
    /\ intervalMs = 0
    /\ lastScanTime = 0
    /\ recordedAt = <<>>
    /\ InitConfigIdle
    /\ InitScannerIdle
    /\ scanType \in TypeInputs
    /\ scanData \in DataInputs
    /\ event = Ev("scan", "none", "-", "none", "returned", "-")

NextBarcode ==
    \/ CallValidateBarcode
    \/ CallIsURL
    \/ CallIsProductBarcode
    \/ CallParseQRCodeData
    \/ UseProductBarcodeScanner

SpecBarcode == InitBarcode /\ [][NextBarcode]_vars

----------------------------------------------------------------------------
(* useBarcodeScanner                                                       *)

\* The throttler of throttlerRef.current is the one of the throttler
\* variables: intervalMs, lastScanTime and recordedAt.  A render of the hook
\* and the effects that follow its commit are one step.

\* options.onBarcodeScanned: undefined ("none") or one of two functions.
Callbacks == {"none", "onScanA", "onScanB"}

\* The results the native scanner delivers to handleBarcodeScan.
ScanResults ==
    {[type |-> <<"q", "r">>, data |-> <<"http", ":", "BEGIN">>],
     [type |-> <<"e", "a", "n", "1", "3">>, data |-> <<"VCARD">>],
     [type |-> <<"e", "a", "n", "1", "3">>, data |-> <<" ">>]}

\* The BarcodeScannerOptions callers pass to useBarcodeScanner.
ScannerOptionInputs ==
    [scanInterval : {<<>>} \cup {<<i>> : i \in Intervals},
     onBarcodeScanned : Callbacks,
     autoStart : {<<>>, <<TRUE>>}]

\* handleBarcodeScan, dropping a scan whose validation fails.
handleBarcodeScan_skipInvalid(result, time, last, interval, callback) ==
    IF ~canScan(time, last, interval) \/ ~validateBarcode(result).valid
    THEN [accepted |-> FALSE, steps |-> <<>>, validation |-> <<>>,
          calls |-> <<>>]
    ELSE LET validation == validateBarcode(result) IN
      [accepted |-> TRUE,
       steps |-> <<"recordScan", "validateBarcode", "setLastScannedCode",
                   "setValidationResult">>
                 \o (IF callback # "none" THEN <<"onBarcodeScanned">>
                     ELSE <<>>),
       validation |-> <<validation>>,
       calls |-> IF callback # "none"
                 THEN <<[callback |-> callback, result |-> result,
                         validation |-> validation]>>
                 ELSE <<>>]

\* handleBarcodeScan, returning early while isScanning is false.
handleBarcodeScan_onlyWhileScanning(result, time, last, interval, callback) ==
    IF ~isScanning \/ ~canScan(time, last, interval)
    THEN [accepted |-> FALSE, steps |-> <<>>, validation |-> <<>>,
          calls |-> <<>>]
    ELSE LET validation == validateBarcode(result) IN
      [accepted |-> TRUE,
       steps |-> <<"recordScan", "validateBarcode", "setLastScannedCode",
                   "setValidationResult">>
                 \o (IF callback # "none" THEN <<"onBarcodeScanned">>
                     ELSE <<>>),
       validation |-> <<validation>>,
       calls |-> IF callback # "none"
                 THEN <<[callback |-> callback, result |-> result,
                         validation |-> validation]>>
                 ELSE <<>>]

\* handleBarcodeScan, reporting to the callback before the state is set.
handleBarcodeScan_callbackFirst(result, time, last, interval, callback) ==
    IF ~canScan(time, last, interval)
    THEN [accepted |-> FALSE, steps |-> <<>>, validation |-> <<>>,
          calls |-> <<>>]
    ELSE LET validation == validateBarcode(result) IN
      [accepted |-> TRUE,
       steps |-> <<"recordScan", "validateBarcode">>
                 \o (IF callback # "none" THEN <<"onBarcodeScanned">>
                     ELSE <<>>)
                 \o <<"setLastScannedCode", "setValidationResult">>,
       validation |-> <<validation>>,
       calls |-> IF callback # "none"
                 THEN <<[callback |-> callback, result |-> result,
                         validation |-> validation]>>
                 ELSE <<>>]

\* handleBarcodeScan(result) at clock value time, with the throttler's
\* lastScanTime and interval and with onBarcodeScannesRef.current: whether
\* the throttler lets the scan through, the statements executed in order, the
\* validation computed and the calls made to the callback.
handleBarcodeScan(result, time, last, interval, callback) ==
    IF ~canScan(time, last, interval)
    THEN [accepted |-> FALSE, steps |-> <<>>, validation |-> <<>>,
          calls |-> <<>>]
    ELSE LET validation == validateBarcode(result) IN
      [accepted |-> TRUE,
       steps |-> <<"recordScan", "validateBarcode", "setLastScannedCode",
                   "setValidationResult">>
                 \o (IF callback # "none" THEN <<"onBarcodeScanned">>
                     ELSE <<>>),
       validation |-> <<validation>>,
       calls |-> IF callback # "none"
                 THEN <<[callback |-> callback, result |-> result,
                         validation |-> validation]>>
                 ELSE <<>>]

\* The native scanner delivers a result to handleBarcodeScan.
HandleBarcodeScan ==
    /\ \E result \in ScanResults :
         LET r == handleBarcodeScan(result, now, lastScanTime, intervalMs,
                                    onBarcodeScannesRef)
         IN  /\ event' = Ev("handleBarcodeScan", "none", result, "none",
                            IF r.accepted THEN "accepted" ELSE "suppressed",
                            r)
             /\ IF r.accepted
                THEN /\ lastScanTime' = recordScan(now)
                     /\ recordedAt' = <<now>>
                     /\ lastScannedCode' = <<result>>
                     /\ validationResult' = r.validation
                ELSE UNCHANGED <<lastScanTime, recordedAt, lastScannedCode,
                                 validationResult>>
    /\ UNCHANGED <<now, intervalMs, isScanning, scanInterval,
                   renderedScanInterval, onBarcodeScannesRef>>
    /\ UNCHANGED <<hookVars, serviceVars, configVars, barcodeVars>>

\* startScanning()
StartScanning ==
    /\ isScanning' = TRUE
    /\ event' = Ev("startScanning", "none", "-", "none", "returned", "-")
    /\ UNCHANGED <<lastScannedCode, validationResult, scanInterval,
                   renderedScanInterval, onBarcodeScannesRef>>
    /\ UNCHANGED <<hookVars, serviceVars, throttlerVars>>
    /\ UNCHANGED <<configVars, barcodeVars>>

\* stopScanning()
StopScanning ==
    /\ isScanning' = FALSE
    /\ event' = Ev("stopScanning", "none", "-", "none", "returned", "-")
    /\ UNCHANGED <<lastScannedCode, validationResult, scanInterval,
                   renderedScanInterval, onBarcodeScannesRef>>
    /\ UNCHANGED <<hookVars, serviceVars, throttlerVars>>
    /\ UNCHANGED <<configVars, barcodeVars>>

\* setScanInterval(interval): the state setter, taking effect at the next
\* render.
SetScanInterval ==
    /\ \E interval \in Intervals :
         /\ scanInterval' = interval
         /\ event' = Ev("setScanInterval", "none", interval, "none",
                        "returned", "-")
    /\ UNCHANGED <<isScanning, lastScannedCode, validationResult,
                   renderedScanInterval, onBarcodeScannesRef>>
    /\ UNCHANGED <<hookVars, serviceVars, throttlerVars>>
    /\ UNCHANGED <<configVars, barcodeVars>>

\* The hook renders again with some options.onBarcodeScanned and its effects
\* run: the callback ref is updated, and when scanInterval has changed since
\* the last render the throttler is replaced by a new one.
ScannerRender ==
    /\ \E callback \in Callbacks :
         /\ onBarcodeScannesRef' = callback
         /\ event' = Ev("render", "none", callback, "none", "returned", "-")
    /\ renderedScanInterval' = scanInterval
    /\ IF scanInterval # renderedScanInterval
       THEN /\ intervalMs' = scanInterval
            /\ lastScanTime' = 0
            /\ recordedAt' = <<>>
       ELSE UNCHANGED <<intervalMs, lastScanTime, recordedAt>>
    /\ UNCHANGED <<now, isScanning, lastScannedCode, validationResult,
                   scanInterval>>
    /\ UNCHANGED <<hookVars, serviceVars, configVars, barcodeVars>>

\* useBarcodeScanner has just been mounted with some options, at any clock
\* value.
InitScanner ==
    /\ InitHookIdle
    /\ serviceCameraRef = FALSE
    /\ InitConfigIdle
    /\ InitBarcodeIdle
    /\ now \in 0..MaxClock
    /\ \E options \in ScannerOptionInputs :
         /\ isScanning = OrElse(options.autoStart, FALSE)
         /\ scanInterval = OrNumber(options.scanInterval, DefaultScanInterval)
         /\ onBarcodeScannesRef = options.onBarcodeScanned
    /\ renderedScanInterval = scanInterval
    /\ intervalMs = scanInterval
    /\ lastScanTime = 0
    /\ recordedAt = <<>>
    /\ lastScannedCode = <<>>
    /\ validationResult = <<>>
    /\ event = Ev("useBarcodeScanner", "none", "-", "none", "returned", "-")

NextScanner ==
    \/ Tick
    \/ HandleBarcodeScan
    \/ StartScanning
    \/ StopScanning
    \/ SetScanInterval
    \/ ScannerRender

SpecScanner == InitScanner /\ [][NextScanner]_vars

----------------------------------------------------------------------------
(* Properties of useCamera *)

\* C1: with a camera handle attached and the hook in the recording state
\* (isRecording true and visible to the callback), a further startRecording
\* reports 'Already recording', makes no native recordAsync call and leaves
\* isRecording true.
C1_SecondStartIsRefused ==
    [][ (event'.op = "startRecording" /\ cameraRef /\ renderedIsRecording
           /\ isRecording)
        => (/\ error' = "Already recording"
            /\ event'.native = "none"
            /\ recordOps' = recordOps
            /\ isRecording' = TRUE) ]_vars

\* C1 witness: a startRecording was refused while an earlier record
\* operation is still in flight.
C1_Witness ==
    /\ event.op = "startRecording"
    /\ event.native = "none"
    /\ cameraRef /\ renderedIsRecording /\ isRecording
    /\ error = "Already recording"
    /\ Len(recordOps) > 0

\* C2: with a camera handle attached, stopRecording while isRecording is
\* false reports 'Not recording', resolves to null, makes no native
\* stopRecording call and leaves isRecording false.
C2_StopWhenIdleIsRefused ==
    [][ (event'.op = "stopRecording" /\ cameraRef /\ ~renderedIsRecording
           /\ ~isRecording)
        => (/\ error' = "Not recording"
            /\ event'.outcome = "resolved"
            /\ event'.value = NULL
            /\ event'.native = "none"
            /\ recordOps' = recordOps
            /\ isRecording' = FALSE) ]_vars

\* C2 witness: a stopRecording was refused with the handle attached.
C2_Witness ==
    /\ event.op = "stopRecording"
    /\ event.native = "none"
    /\ cameraRef /\ ~renderedIsRecording /\ ~isRecording
    /\ error = "Not recording"

\* C3: once the native record operation started by startRecording has
\* settled, by resolving or by rejecting, isRecording is false.
C3_FlagResetWhenRecordSettles ==
    (\/ event.op = "startRecordingSettled"
     \/ (event.op = "startRecording" /\ event.nativeResult = "threw"))
    => ~isRecording

\* C4: the hook never calls native recordAsync while an earlier recordAsync
\* call is still in flight and no stopRecording has been issued for it.
C4_RecordingMutuallyExclusive ==
    [][ event'.native = "recordAsync"
        => \A i \in 1..Len(recordOps) : recordOps[i] ]_vars

PermissionGranted ==
    cameraPermission # NullPermission /\ cameraPermission.granted

\* C5: takePicture called while camera permission has not been granted
\* returns null with an error and makes no native takePictureAsync call.
C5_NoCaptureWithoutPermission ==
    [][ (event'.op = "takePicture" /\ ~PermissionGranted)
        => (/\ event'.native = "none"
            /\ event'.outcome = "resolved"
            /\ event'.value = NULL
            /\ error' # NULL) ]_vars

CaptureCalls == {"takePicture", "startRecording", "stopRecording"}

CaptureSteps ==
    CaptureCalls \cup {"takePictureSettled", "startRecordingSettled"}

NoValue(op) ==
    IF op \in {"startRecording", "startRecordingSettled"} THEN "void" ELSE NULL

\* C6: takePicture, startRecording and stopRecording never reject; with the
\* handle missing they make no native call; with the handle missing or the
\* native call throwing (or its promise rejecting) they resolve to null
\* (startRecording to no value) with error set to a non-null message.
C6_CaptureNeverRejects ==
    [][ /\ (event'.op \in CaptureSteps => event'.outcome # "rejected")
        /\ (event'.op \in CaptureCalls /\ ~cameraRef)
           => (/\ event'.native = "none"
               /\ pictureOps' = pictureOps /\ recordOps' = recordOps
               /\ event'.outcome = "resolved"
               /\ event'.value = NoValue(event'.op)
               /\ error' # NULL)
        /\ (event'.op \in CaptureSteps
              /\ event'.nativeResult \in {"threw", "rejected"})
           => (/\ event'.outcome = "resolved"
               /\ event'.value = NoValue(event'.op)
               /\ error' # NULL) ]_vars

\* C6 witness: a native takePictureAsync promise rejected and takePicture
\* resolved to null with the error set.
C6_Witness ==
    /\ event.op = "takePictureSettled"
    /\ event.nativeResult = "rejected"
    /\ event.outcome = "resolved"
    /\ event.value = NULL
    /\ error # NULL

----------------------------------------------------------------------------
(* Properties of the facade *)

CaptureFailedCode(op) ==
    IF op = "takePicture" THEN "PICTURE_ERROR" ELSE "VIDEO_ERROR"

\* C7: the instance's takePicture and recordVideo fail with NO_CAMERA_REF
\* and no native call when no camera reference is set, fail with
\* PICTURE_ERROR / VIDEO_ERROR when the native call throws, and every
\* failure they hand to the caller carries a code and a message.
C7_HandleNotSetVersusCaptureFailed ==
    [][ event'.op \in {"takePicture", "recordVideo"}
        => /\ ~serviceCameraRef
              => (/\ event'.outcome = "rejected"
                  /\ event'.code = "NO_CAMERA_REF"
                  /\ event'.native = "none")
           /\ event'.nativeResult = "threw"
              => (/\ event'.outcome = "rejected"
                  /\ event'.code = CaptureFailedCode(event'.op)
                  /\ event'.code # "NO_CAMERA_REF")
           /\ event'.outcome = "rejected"
              => (event'.code \notin {NULL, "-"} /\ event'.message # NULL)
      ]_vars

\* C7 witness: takePicture was called with no camera reference and failed
\* with NO_CAMERA_REF without a native call.
C7_Witness ==
    /\ event.op = "takePicture"
    /\ ~serviceCameraRef
    /\ event.native = "none"
    /\ event.outcome = "rejected"
    /\ event.code = "NO_CAMERA_REF"

PermissionRequests ==
    {"requestCameraPermission", "requestMicrophonePermission",
     "requestPermissions"}

\* C8: when the native permission request throws, every permission-request
\* operation resolves to granted=false, status='denied', canAskAgain=true.
C8_DeniedCanAskAgainOnFailure ==
    (event.op \in PermissionRequests /\ event.nativeResult = "throw")
    => /\ event.outcome = "resolved"
       /\ event.value = [granted |-> FALSE, canAskAgain |-> TRUE,
                         status |-> "denied"]

----------------------------------------------------------------------------
(* Properties of the scan throttler *)

\* C9: after recordScan() at time t, canScan() is false at every time in
\* [t, t+I) and true at every time >= t+I, until the next recordScan().
C9_ThrottleWindow ==
    (event.op = "canScan" /\ recordedAt # <<>>)
    => LET t == recordedAt[1] IN
         /\ now < t + intervalMs => event.value = "false"
         /\ now >= t + intervalMs => event.value = "true"

\* C9 witness: canScan() answered false after the clock had advanced past
\* the recorded scan but not yet by the interval.
C9_Witness ==
    /\ event.op = "canScan"
    /\ recordedAt # <<>>
    /\ now > recordedAt[1]
    /\ now < recordedAt[1] + intervalMs
    /\ event.value = "false"

\* C10: before any recordScan(), canScan() returns true for every interval
\* and every clock value.
C10_FirstScanAllowed ==
    (event.op = "canScan" /\ recordedAt = <<>>) => event.value = "true"

\* C11: a scan delivered to handleBarcodeScan within the throttler's interval
\* after the scan it last accepted is suppressed whatever its content:
\* lastScannedCode, validationResult and the throttler's last-scan time keep
\* their values and the callback is not invoked.
C11_ScanWithinIntervalSuppressed ==
    [][(/\ event'.op = "handleBarcodeScan"
        /\ recordedAt # <<>>
        /\ now - recordedAt[1] < intervalMs)
       => (/\ event'.outcome = "suppressed"
           /\ lastScannedCode' = lastScannedCode
           /\ validationResult' = validationResult
           /\ lastScanTime' = lastScanTime
           /\ recordedAt' = recordedAt
           /\ event'.value.calls = <<>>)]_vars

\* A scan whose code differs from the last accepted one has been suppressed
\* while a callback was in place.
C11_Witness ==
    /\ event.op = "handleBarcodeScan"
    /\ event.outcome = "suppressed"
    /\ recordedAt # <<>>
    /\ now - recordedAt[1] < intervalMs
    /\ lastScannedCode # <<>>
    /\ lastScannedCode[1] # event.arg
    /\ onBarcodeScannesRef # "none"

\* C12: for every scan the throttler accepts, handleBarcodeScan records the
\* scan time, computes validation = validateBarcode(result), sets
\* lastScannedCode to result and validationResult to validation, and then
\* invokes the current callback, when there is one, exactly once with
\* (result, validation), in that order.
C12_AcceptedScanPipeline ==
    [][(/\ event'.op = "handleBarcodeScan"
        /\ canScan(now, lastScanTime, intervalMs))
       => LET result == event'.arg
              validation == validateBarcode(result)
          IN  /\ event'.outcome = "accepted"
              /\ lastScanTime' = now
              /\ recordedAt' = <<now>>
              /\ lastScannedCode' = <<result>>
              /\ validationResult' = <<validation>>
              /\ event'.value.steps =
                   IF onBarcodeScannesRef = "none"
                   THEN <<"recordScan", "validateBarcode",
                          "setLastScannedCode", "setValidationResult">>
                   ELSE <<"recordScan", "validateBarcode",
                          "setLastScannedCode", "setValidationResult",
                          "onBarcodeScanned">>
              /\ event'.value.calls =
                   IF onBarcodeScannesRef = "none" THEN <<>>
                   ELSE <<[callback |-> onBarcodeScannesRef,
                           result |-> result,
                           validation |-> validation]>>]_vars

\* An accepted scan has been reported to a callback.
C12_Witness ==
    /\ event.op = "handleBarcodeScan"
    /\ event.outcome = "accepted"
    /\ Len(event.value.calls) = 1
    /\ event.value.calls[1].callback = onBarcodeScannesRef
    /\ lastScannedCode = <<event.arg>>
    /\ validationResult = <<event.value.calls[1].validation>>
    /\ recordedAt = <<now>>

\* Two symbology strings that differ at most in the case of their letters.
SameIgnoringCase(a, b) ==
    /\ Len(a) = Len(b)
    /\ \A i \in 1..Len(a) :
         \/ a[i] = b[i]
         \/ \E k \in LetterIndexes :
              {a[i], b[i]} = {LowerLetters[k], UpperLetters[k]}

\* Data with at least one character that is not whitespace.
NonBlank(data) == \E i \in 1..Len(data) : data[i] # " "

\* C13: validateBarcode marks a result valid exactly when its data has a
\* non-whitespace character.  Blank data gives valid = false, formatted = ''
\* and an error.  Non-blank data gives as type the known symbology that
\* matches the reported type in any letter case, and null when none does.
C13_ValidIffNonBlank ==
    event.op = "validateBarcode" =>
      LET result == event.arg
          validation == event.value
      IN  /\ validation.valid = NonBlank(result.data)
          /\ ~NonBlank(result.data) =>
               /\ validation.formatted = <<>>
               /\ validation.error # <<>>
          /\ NonBlank(result.data) =>
               \A i \in 1..Len(BarcodeTypeValues) :
                 /\ SameIgnoringCase(result.type, BarcodeTypeValues[i]) =>
                      validation.type = <<BarcodeTypeValues[i]>>
                 /\ validation.type = <<BarcodeTypeValues[i]>> =>
                      SameIgnoringCase(result.type, BarcodeTypeValues[i])
          /\ (NonBlank(result.data) /\
              \A i \in 1..Len(BarcodeTypeValues) :
                ~SameIgnoringCase(result.type, BarcodeTypeValues[i])) =>
               validation.type = <<>>

\* Data that is blank but not empty, under a known type, has been rejected.
C13_Witness ==
    /\ event.op = "validateBarcode"
    /\ event.arg.type = <<"E", "A", "N", "1", "3">>
    /\ event.arg.data = <<" ", " ">>
    /\ ~event.value.valid
    /\ event.value.formatted = <<>>
    /\ event.value.error # <<>>

\* C14: the formatted string of a valid result is 'URL: ' + data for a QR
\* type (any letter case) whose data parses as a URL, the data itself for a
\* QR type whose data does not, and 'Barcode: ' + data for any other type.
C14_FormattedByType ==
    (event.op = "validateBarcode" /\ event.value.valid) =>
      LET result == event.arg
          formatted == event.value.formatted
          qr == SameIgnoringCase(result.type, <<"q", "r">>)
      IN  /\ (qr /\ URL_parses(result.data)) =>
               formatted = <<"URL: ">> \o result.data
          /\ (qr /\ ~URL_parses(result.data)) => formatted = result.data
          /\ ~qr => formatted = <<"Barcode: ">> \o result.data

\* An upper-case QR result holding a URL has been formatted.
C14_Witness ==
    /\ event.op = "validateBarcode"
    /\ event.arg.type = <<"Q", "R">>
    /\ event.arg.data = <<"http", ":", "BEGIN">>
    /\ event.value.formatted = <<"URL: ", "http", ":", "BEGIN">>

\* The product symbologies the specification lists.
C15_ProductSet ==
    {<<"e", "a", "n", "8">>, <<"e", "a", "n", "1", "3">>,
     <<"u", "p", "c", "_", "a">>, <<"u", "p", "c", "_", "e">>,
     <<"c", "o", "d", "e", "1", "2", "8">>}

\* The elements of an array.
Elements(array) == { array[i] : i \in 1..Len(array) }

\* C15: isProductBarcode(type) is true exactly when type is, in any letter
\* case, one of ean8, ean13, upc_a, upc_e, code128, and that set is the list
\* getProductBarcodeTypes returns, which useProductBarcodeScanner pre-selects.
C15_ProductTypes ==
    /\ event.op = "isProductBarcode" =>
         event.value =
           (\E p \in C15_ProductSet : SameIgnoringCase(event.arg, p))
    /\ event.op = "useProductBarcodeScanner" =>
         /\ Elements(event.value) = C15_ProductSet
         /\ Elements(productTypes) = Elements(event.value)

\* isProductBarcode has been asked about '<<"e", "a", "n", "1", "3">>'.
C15_Witness ==
    /\ event.op = "isProductBarcode"
    /\ event.arg = <<"E", "A", "N", "1", "3">>
    /\ event.value = TRUE

\* C16: parseQRCodeData classifies data beginning with 'BEGIN:VCARD' as
\* 'vcard', other data that parses as a URL as 'url', and the rest as 'text';
\* the content is the data.
C16_VCardUrlText ==
    event.op = "parseQRCodeData" =>
      LET data == event.arg
          vcard == startsWith(data, <<"BEGIN", ":", "VCARD">>)
      IN  /\ event.value.content = data
          /\ vcard => event.value.type = "vcard"
          /\ (~vcard /\ URL_parses(data)) => event.value.type = "url"
          /\ (~vcard /\ ~URL_parses(data)) => event.value.type = "text"

C19_NativeQualityClamped ==
    event.native = "takePictureAsync" =>
      0 <= event.arg.quality /\ event.arg.quality <= One

\* The value validateConfig is specified to return for a partial
\* configuration: the supplied value of each field (the zoom brought into
\* [0, 1]) or the fixed default.
C20_Expected(partial) ==
    [facing       |-> IF partial.facing # <<>> THEN partial.facing[1]
                      ELSE "back",
     flash        |-> IF partial.flash # <<>> THEN partial.flash[1]
                      ELSE "off",
     zoom         |-> IF partial.zoom = <<>> THEN 0
                      ELSE IF partial.zoom[1] < 0 THEN 0
                      ELSE IF partial.zoom[1] > One THEN One
                      ELSE partial.zoom[1],
     autofocus    |-> IF partial.autofocus # <<>> THEN partial.autofocus[1]
                      ELSE "on",
     mode         |-> IF partial.mode # <<>> THEN partial.mode[1]
                      ELSE "picture",
     ratio        |-> IF partial.ratio # <<>> THEN partial.ratio[1]
                      ELSE "4:3",
     enableTorch  |-> IF partial.enableTorch # <<>>
                      THEN partial.enableTorch[1] ELSE FALSE,
     videoQuality |-> IF partial.videoQuality # <<>>
                      THEN partial.videoQuality[1] ELSE "1080p"]

\* C20: validateConfig returns a complete configuration whose every field is
\* the caller's value when one was supplied (zoom clamped to [0, 1]) and the
\* fixed default otherwise; a supplied zoom of 0 and a supplied enableTorch
\* of false are kept.
C20_ValidateConfigDefaults ==
    /\ event.op = "useCamera" =>
         event.value =
           C20_Expected(OrElse(event.arg, EmptyPartialConfig))
    /\ event.op = "validateConfig" => event.value = C20_Expected(event.arg)

\* A partial configuration with zoom 0 and enableTorch false supplied, and
\* the other fields partly absent, has been validated.
C20_Witness ==
    /\ event.op = "useCamera"
    /\ event.arg # <<>>
    /\ event.arg[1].zoom = <<0>>
    /\ event.arg[1].enableTorch = <<FALSE>>
    /\ event.arg[1].facing = <<>>
    /\ event.arg[1].flash = <<"auto">>
    /\ event.value.zoom = 0
    /\ event.value.enableTorch = FALSE
    /\ event.value.facing = "back"
    /\ event.value.flash = "auto"

\* C21: validateConfig is a fixed point on its own output: validating the
\* configuration validateConfig returned for any partial configuration gives
\* that configuration back, field by field.
C21_ValidateConfigFixedPoint ==
    /\ event.op = "useCamera" =>
         validateConfig(AsPartial(event.value)) = event.value
    /\ event.op = "validateConfig" =>
         /\ event.arg = AsPartial(config)
         /\ event.value = config
         /\ \A field \in DOMAIN config : event.value[field] = config[field]

\* A configuration validateConfig produced from an out-of-range zoom and a
\* supplied torch flag has been validated again.
C21_Witness ==
    /\ event.op = "validateConfig"
    /\ config.zoom = One
    /\ config.enableTorch
    /\ config.videoQuality = "720p"
    /\ event.value = config

\* C22: stopRecording called while a recording is in progress, with the
\* native stopRecording call succeeding, resolves to the recorded video, a
\* non-null value.
C22_StopRecordingReturnsVideo ==
    [][(/\ event'.op = "stopRecording"
        /\ cameraRef
        /\ isRecording
        /\ renderedIsRecording
        /\ event'.nativeResult = "returned")
       => event'.value # NULL]_vars

\* The record operations in flight that stopRecording has been called for.
StoppedOps(ops) == { i \in 1..Len(ops) : ops[i] }

\* The record operations in flight that no stopRecording has been called for.
LiveOps(ops) == { i \in 1..Len(ops) : ~ops[i] }

\* C23: while a record operation started after a stopRecording is in flight
\* and isRecording is true, the settling of an earlier, stopped record
\* operation leaves isRecording true, even when that operation rejects.
C23_LateSettleKeepsRecording ==
    [][(/\ event'.op = "startRecordingSettled"
        /\ isRecording
        /\ LiveOps(recordOps) # {}
        /\ Cardinality(LiveOps(recordOps')) = Cardinality(LiveOps(recordOps))
        /\ Cardinality(StoppedOps(recordOps')) <
             Cardinality(StoppedOps(recordOps)))
       => isRecording']_vars

\* C24: an invalid scan (blank data) that passes the throttle is treated like
\* any accepted scan: the scan time is recorded, lastScannedCode and
\* validationResult (valid = false) are replaced and the callback is invoked;
\* a valid scan arriving within the interval after it is suppressed.
C24_InvalidScanIsRecorded ==
    [][/\ (/\ event'.op = "handleBarcodeScan"
           /\ ~NonBlank(event'.arg.data)
           /\ now - lastScanTime >= intervalMs)
          => (/\ event'.outcome = "accepted"
              /\ lastScanTime' = now
              /\ recordedAt' = <<now>>
              /\ lastScannedCode' = <<event'.arg>>
              /\ validationResult' # <<>>
              /\ ~validationResult'[1].valid
              /\ Len(event'.value.calls) =
                   (IF onBarcodeScannesRef = "none" THEN 0 ELSE 1)
              /\ \A i \in 1..Len(event'.value.calls) :
                   /\ event'.value.calls[i].result = event'.arg
                   /\ ~event'.value.calls[i].validation.valid)
       /\ (/\ event'.op = "handleBarcodeScan"
           /\ NonBlank(event'.arg.data)
           /\ recordedAt # <<>>
           /\ lastScannedCode # <<>>
           /\ ~NonBlank(lastScannedCode[1].data)
           /\ now - recordedAt[1] < intervalMs)
          => (/\ event'.outcome = "suppressed"
              /\ UNCHANGED <<lastScanTime, recordedAt, lastScannedCode,
                             validationResult>>
              /\ event'.value.calls = <<>>)]_vars

\* A valid scan has been suppressed within the interval after an invalid
\* scan that was accepted and reported to the callback.
C24_Witness ==
    /\ event.op = "handleBarcodeScan"
    /\ event.outcome = "suppressed"
    /\ NonBlank(event.arg.data)
    /\ recordedAt # <<>>
    /\ now - recordedAt[1] < intervalMs
    /\ lastScannedCode # <<>>
    /\ ~NonBlank(lastScannedCode[1].data)
    /\ validationResult # <<>>
    /\ ~validationResult[1].valid
    /\ onBarcodeScannesRef # "none"

\* C25: when a changed scanInterval takes effect the throttler is replaced by
\* a fresh one with no recorded scan, and the next scan is accepted even
\* within the old and the new interval after the last accepted scan; a
\* scanInterval set to the value it had keeps the throttler and its
\* last-scan time.
C25_IntervalChangeResetsThrottle ==
    [][/\ event'.op = "setScanInterval"
          => UNCHANGED <<intervalMs, lastScanTime, recordedAt>>
       /\ (event'.op = "render" /\ scanInterval = renderedScanInterval)
          => UNCHANGED <<intervalMs, lastScanTime, recordedAt>>
       /\ (event'.op = "render" /\ scanInterval # renderedScanInterval)
          => (/\ intervalMs' = scanInterval
              /\ recordedAt' = <<>>)
       /\ (/\ event'.op = "handleBarcodeScan"
           /\ lastScannedCode # <<>>
           /\ recordedAt = <<>>)
          => (/\ event'.outcome = "accepted"
              /\ lastScannedCode' = <<event'.arg>>)]_vars

\* C26: the effect of handleBarcodeScan does not depend on isScanning.
\* startScanning and stopScanning change only the isScanning flag, and a scan
\* is throttled, validated, stored and reported to the callback in the same
\* way whether isScanning is true or false.
C26_ScanIgnoresIsScanning ==
    [][/\ event'.op \in {"startScanning", "stopScanning"}
          => (/\ isScanning' = (event'.op = "startScanning")
              /\ UNCHANGED <<lastScannedCode, validationResult, scanInterval,
                             renderedScanInterval, onBarcodeScannesRef>>
              /\ UNCHANGED throttlerVars)
       /\ event'.op = "handleBarcodeScan"
          => (/\ isScanning' = isScanning
              /\ (event'.outcome = "accepted") =
                   (now - lastScanTime >= intervalMs)
              /\ event'.outcome \in {"accepted", "suppressed"}
              /\ event'.outcome = "accepted" =>
                   /\ lastScanTime' = now
                   /\ lastScannedCode' = <<event'.arg>>
                   /\ validationResult' = <<validateBarcode(event'.arg)>>
                   /\ event'.value.calls =
                        IF onBarcodeScannesRef = "none" THEN <<>>
                        ELSE <<[callback |-> onBarcodeScannesRef,
                                result |-> event'.arg,
                                validation |-> validateBarcode(event'.arg)]>>
              /\ event'.outcome = "suppressed" =>
                   /\ UNCHANGED <<lastScanTime, recordedAt, lastScannedCode,
                                  validationResult>>
                   /\ event'.value.calls = <<>>)]_vars

\* A scan delivered after stopScanning has been accepted and reported.
C26_Witness ==
    /\ event.op = "handleBarcodeScan"
    /\ event.outcome = "accepted"
    /\ ~isScanning
    /\ lastScannedCode = <<event.arg>>
    /\ Len(event.value.calls) = 1

\* C27: in every reachable state of useCamera isReady is true exactly when
\* cameraPermission is non-null and granted, and only the settling of a
\* camera permission request changes isReady or cameraPermission: microphone
\* permission requests, captures and recordings never do.
C27_ReadyIffCameraGranted ==
    [][/\ isReady = PermissionGranted
       /\ isReady' = PermissionGranted'
       /\ event'.op # "requestCameraPermissionSettled"
          => UNCHANGED <<isReady, cameraPermission>>]_vars

\* The camera permission has been granted and a microphone request that
\* settled afterwards was denied.
C27_Witness ==
    /\ event.op = "requestMicrophonePermissionSettled"
    /\ microphonePermission.status = "denied"
    /\ cameraPermission.granted
    /\ isReady

\* C28: when the native recordAsync call returns no result, the instance
\* recordVideo fails with code VIDEO_RECORDING_FAILED and the message
\* 'Video recording failed - no result returned'.
C28_NoResultErrorCode ==
    (event.op = "recordVideo" /\ event.nativeResult = "empty") =>
      /\ event.outcome = "rejected"
      /\ event.code = "VIDEO_RECORDING_FAILED"
      /\ event.message = "Video recording failed - no result returned"

\* The configuration actions of useCamera and the field each one owns.
C29_OwnField ==
    [setFacing |-> "facing", setFlash |-> "flash", setZoom |-> "zoom",
     setAutofocus |-> "autofocus", setMode |-> "mode", setRatio |-> "ratio",
     toggleTorch |-> "enableTorch", toggleFacing |-> "facing"]

\* The value a configuration action gives its own field.
C29_OwnValue(op, arg, prev) ==
    IF op = "setZoom" THEN validateZoom(arg)
    ELSE IF op = "toggleTorch" THEN ~prev.enableTorch
    ELSE IF op = "toggleFacing"
    THEN (IF prev.facing = "back" THEN "front" ELSE "back")
    ELSE arg

\* C29: each configuration action changes only its own field of the latest
\* config and leaves the permission results, isRecording, isReady and error
\* unchanged.
C29_ConfigActionFrame ==
    [][event'.op \in DOMAIN C29_OwnField
       => (/\ \A field \in DOMAIN config :
                config'[field] =
                  IF field = C29_OwnField[event'.op]
                  THEN C29_OwnValue(event'.op, event'.arg, config)
                  ELSE config[field]
           /\ UNCHANGED <<cameraPermission, microphonePermission,
                          isRecording, isReady, error>>)]_vars

\* toggleTorch has been applied to a config whose other fields had been
\* changed before.
C29_Witness ==
    /\ event.op = "toggleTorch"
    /\ config.enableTorch
    /\ config.zoom = One
    /\ config.facing = "front"
    /\ config.mode = "video"
    /\ config.ratio = "1:1"

====
